---------------------------- MODULE Spec2Model ----------------------------
(***************************************************************************)
(* A model of microshell.c: the argument lexer (processArgs), the chain    *)
(* builder (buildCommandChains), the chain executor (executeCommandChain)  *)
(* with the process and pipeline launchers, and the part of main that      *)
(* drives them for one input line.                                         *)
(*                                                                         *)
(* Characters are one-character strings; a C string is a sequence of them  *)
(* followed by NUL.  Pointers into the arrays of main (argBuffer, argList, *)
(* commands) are 0-based indexes; memory that main zeroes with memset is a *)
(* function whose domain holds the cells written so far, every other cell  *)
(* reading as zero.                                                        *)
(***************************************************************************)
EXTENDS Integers, Sequences, FiniteSets, TLC

VARIABLES
    input,      \* main: char input[], the line read by fgets (without its NUL)
    lx,         \* processArgs: the locals and return parameters of the current call
    pc,         \* position of the interpreter process
    argBuffer,  \* main: char argBuffer[]
    argList,    \* main: arg_t argList[]
    commands,   \* main: command_t commands[], the nodes built so far
    b,          \* buildCommandChains: its locals
    m,          \* main: numCommandChains, chainCount, commandCount, chainSkip, exitStatus
    x,          \* executeCommandChain: chain, status, allStatus, stopped
    openFds,    \* descriptors open in the interpreter process
    hist,       \* history: what the builder and the executor did, for the properties
    procs,      \* the process table: the interpreter and the processes it forked
    npipes      \* the number of pipes created by pipe()

vars == <<input, lx, pc, argBuffer, argList, commands, b, m, x, openFds, hist,
          procs, npipes>>

-----------------------------------------------------------------------------
(* Bounds of the model. *)

\* most separators and control operators on a line of the main specification
MaxOps == 2
\* longest line, in characters, of the lexer specification
MaxLexLen == 4
\* largest exit status a launched program reports
MaxStatus == 1
\* most control operators on a line of the process-level specification
MaxProcOps == 2
\* most separators and control operators on a line of the builder specification
MaxBuildOps == 4

-----------------------------------------------------------------------------
(* Characters and the macros of the source. *)

NUL == "NUL"
NULL == -1
BACKSLASH == "\\"
SQUOTE == "'"
DQUOTE == "\""

ISWHITESPACE(c) == c \in {" ", "\t", "\n"}
ISCONTROLCHAR(c) == c \in {";", "&", "|", "<", ">"}

SR_DONE == 0
SR_ERROR == 1
SR_SEQ_CHAIN == 2
SR_SEQ_AND == 3
SR_SEQ_OR == 4
SR_PIPE == 5
SR_REDIRECT_IN == 6
SR_REDIRECT_IN_HERE == 7
SR_REDIRECT_OUT == 8
SR_REDIRECT_OUT_APPEND == 9
SR_BACKGROUND == 10
\* stopReason before processArgs has assigned it
SR_UNSET == -1

\* the character at 0-based index i of a NUL-terminated string held in a zeroed buffer
CharAt(str, i) == IF i >= 0 /\ i < Len(str) THEN str[i + 1] ELSE NUL

\* zeroed memory: read and write of one cell
Load(mem, i, zero) == IF i \in DOMAIN mem THEN mem[i] ELSE zero
Store(mem, i, v) == [j \in (DOMAIN mem) \cup {i} |-> IF j = i THEN v ELSE mem[j]]

\* memcpy(mem + off, src, Len(src))
RECURSIVE MemCpy(_, _, _)
MemCpy(mem, off, src) ==
    IF src = <<>> THEN mem
    ELSE MemCpy(Store(mem, off, Head(src)), off + 1, Tail(src))

\* the C string that starts at mem + off
RECURSIVE StrAt(_, _)
StrAt(mem, off) ==
    IF Load(mem, off, NUL) = NUL THEN <<>>
    ELSE <<Load(mem, off, NUL)>> \o StrAt(mem, off + 1)

\* the NULL-terminated vector of C strings that starts at list + i
RECURSIVE ArgvAt(_, _, _)
ArgvAt(list, mem, i) ==
    IF Load(list, i, NULL) = NULL THEN <<>>
    ELSE <<StrAt(mem, Load(list, i, NULL))>> \o ArgvAt(list, mem, i + 1)

-----------------------------------------------------------------------------
(* processArgs.  A call works on input + start, writes whole arguments to  *)
(* buf + bufBase and their addresses to list + listBase.  The field args   *)
(* keeps each argument as it was copied out of curArg.                     *)

LexInit(start, buf, bufBase, list, listBase) ==
    [ start      |-> start,
      c          |-> start,
      processed  |-> 0,
      escaped    |-> FALSE,
      quoted     |-> FALSE,
      quoteChar  |-> NUL,
      curArg     |-> <<>>,
      args       |-> <<>>,
      argsOffset |-> 0,
      argCount   |-> 0,
      argChars   |-> 0,
      stopReason |-> SR_UNSET,
      buf        |-> buf,
      bufBase    |-> bufBase,
      list       |-> list,
      listBase   |-> listBase,
      running    |-> TRUE ]

\* break out of the loop: the increments after the loop, and the return
LexBreak(s, reason, extra) ==
    [s EXCEPT !.stopReason = reason,
              !.processed = s.processed + extra + 1,
              !.argChars = s.argsOffset,
              !.running = FALSE]

\* the end of the loop body: ++c; ++processed
LexAdvance(s) == [s EXCEPT !.c = s.c + 1, !.processed = s.processed + 1]

\* while(ISWHITESPACE(*c)) ++c: the index the skip stops at
RECURSIVE SkipWhitespace(_, _)
SkipWhitespace(str, i) ==
    IF ISWHITESPACE(CharAt(str, i)) THEN SkipWhitespace(str, i + 1) ELSE i

\* a whole argument ends at an unquoted, unescaped separator
LexFlush(str, s) ==
    LET dst == s.bufBase + s.argsOffset
        f == [s EXCEPT !.buf = MemCpy(s.buf, dst, s.curArg),
                       !.list = Store(s.list, s.listBase + s.argCount, dst),
                       !.argCount = s.argCount + 1,
                       !.argsOffset = s.argsOffset + Len(s.curArg) + 1,
                       !.args = Append(s.args, s.curArg),
                       !.curArg = <<>>]
        c2 == SkipWhitespace(str, s.c)
        g == [f EXCEPT !.c = c2, !.processed = s.processed + (c2 - s.c)]
        ch == CharAt(str, c2)
        nx == CharAt(str, c2 + 1)
    IN  IF ch = ";" THEN LexBreak(g, SR_SEQ_CHAIN, 0)
        ELSE IF ch = "|" /\ nx = "|" THEN LexBreak(g, SR_SEQ_OR, 1)
        ELSE IF ch = "|" THEN LexBreak(g, SR_PIPE, 0)
        ELSE IF ch = "&" /\ nx = "&" THEN LexBreak(g, SR_SEQ_AND, 1)
        ELSE IF ch = "&" THEN LexBreak(g, SR_BACKGROUND, 0)
        ELSE IF ch = ">" /\ nx = ">" THEN LexBreak(g, SR_REDIRECT_OUT_APPEND, 1)
        ELSE IF ch = ">" THEN LexBreak(g, SR_REDIRECT_OUT, 0)
        ELSE IF ch = "<" /\ nx = "<" THEN LexBreak(g, SR_REDIRECT_IN_HERE, 1)
        ELSE IF ch = "<" THEN LexBreak(g, SR_REDIRECT_IN, 0)
        ELSE LexAdvance([g EXCEPT !.c = c2 - 1, !.processed = g.processed - 1])

\* LexStep with a quote character toggling the quoted region even when escaped
LexStep_EscapedQuoteToggles(str, s) ==
    LET ch == CharAt(str, s.c)
    IN  IF ch = NUL THEN LexBreak(s, SR_DONE, 0)
        ELSE IF ch = BACKSLASH /\ ~s.escaped
            THEN LexAdvance([s EXCEPT !.escaped = TRUE])
        ELSE IF ch \in {SQUOTE, DQUOTE}
            THEN IF ~s.quoted
                    THEN LexAdvance([s EXCEPT !.quoteChar = ch, !.quoted = TRUE])
                 ELSE IF ch = s.quoteChar
                    THEN LexAdvance([s EXCEPT !.quoteChar = NUL, !.quoted = FALSE])
                 ELSE LexAdvance(s)
        ELSE IF (ISWHITESPACE(ch) \/ ISCONTROLCHAR(ch)) /\ ~(s.escaped \/ s.quoted)
            THEN IF Len(s.curArg) > 0 THEN LexFlush(str, s)
                 ELSE IF ISCONTROLCHAR(ch) THEN LexBreak(s, SR_ERROR, 0)
                 ELSE LexAdvance(s)
        ELSE LexAdvance([s EXCEPT !.curArg = Append(s.curArg, ch), !.escaped = FALSE])

\* one iteration of while(1)
LexStep(str, s) ==
    LET ch == CharAt(str, s.c)
    IN  IF ch = NUL THEN LexBreak(s, SR_DONE, 0)
        ELSE IF ch = BACKSLASH /\ ~s.escaped
            THEN LexAdvance([s EXCEPT !.escaped = TRUE])
        ELSE IF ch \in {SQUOTE, DQUOTE} /\ ~s.escaped
            THEN IF ~s.quoted
                    THEN LexAdvance([s EXCEPT !.quoteChar = ch, !.quoted = TRUE])
                 ELSE IF ch = s.quoteChar
                    THEN LexAdvance([s EXCEPT !.quoteChar = NUL, !.quoted = FALSE])
                 ELSE LexAdvance(s)
        ELSE IF (ISWHITESPACE(ch) \/ ISCONTROLCHAR(ch)) /\ ~(s.escaped \/ s.quoted)
            THEN IF Len(s.curArg) > 0 THEN LexFlush(str, s)
                 ELSE IF ISCONTROLCHAR(ch) THEN LexBreak(s, SR_ERROR, 0)
                 ELSE LexAdvance(s)
        ELSE LexAdvance([s EXCEPT !.curArg = Append(s.curArg, ch), !.escaped = FALSE])

\* a whole call of processArgs
RECURSIVE LexRun(_, _)
LexRun(str, s) == IF s.running THEN LexRun(str, LexStep(str, s)) ELSE s

processArgs(str, start, buf, bufBase, list, listBase) ==
    LexRun(str, LexInit(start, buf, bufBase, list, listBase))

\* the argument list a call returned: argCount strings from list + listBase
LexArgs(s) ==
    [i \in 1..s.argCount |-> StrAt(s.buf, Load(s.list, s.listBase + i - 1, NULL))]

-----------------------------------------------------------------------------
(* Command nodes.  Node n is commands[n + 1]; a cell of the zeroed array   *)
(* that buildCommandChains never wrote reads as ZeroNode.                  *)

STDIN == 0
STDOUT == 1
STDERR == 2
\* what open returns when it fails
OPEN_FAILED == -1

ZeroNode ==
    [ argList |-> NULL, fdIn |-> 0, fdOut |-> 0, stopOnFailure |-> 0,
      stopOnSuccess |-> 0, piped |-> 0, background |-> 0, next |-> NULL ]

Node(cs, n) == IF n >= 0 /\ n < Len(cs) THEN cs[n + 1] ELSE ZeroNode

\* the argument vector execvp and strcmp see for node n
Argv(cs, list, mem, n) == ArgvAt(list, mem, Node(cs, n).argList)

EXIT == <<"e", "x", "i", "t">>

\* strcmp(command->argList[0], "exit") == 0
IsExit(cs, list, mem, n) ==
    LET p == Load(list, Node(cs, n).argList, NULL)
    IN  p # NULL /\ StrAt(mem, p) = EXIT

\* open: the lowest descriptor not in use
LowestFree(fds) == CHOOSE d \in 0..(Cardinality(fds) + 1) :
                      d \notin fds /\ \A e \in 0..(d - 1) : e \in fds

-----------------------------------------------------------------------------
(* buildCommandChains: one iteration of its do-while loop.                 *)

\* int *getFd points to a descriptor field of a node: <<node, field>>; this is
\* the null pointer
NullFd == <<NULL, "">>

BuildInit ==
    [ argTotal |-> 0, argCharsTotal |-> 0, inputPos |-> 0,
      stopReason |-> SR_UNSET, chainCount |-> 0, commandCount |-> 0,
      continueLast |-> 0, getFd |-> NullFd, oflags |-> "0",
      com |-> NULL, lastCom |-> NULL ]

HistInit ==
    [ ev |-> "none", made |-> <<>>, errPos |-> {}, perr |-> {}, opens |-> <<>>,
      launched |-> <<>>, spawned |-> <<>>, evals |-> <<>>, returns |-> <<>>,
      starts |-> <<>>, targets |-> {} ]

\* the node a pointer to a descriptor field belongs to, and the field
FdNode(p) == p[1]
FdField(p) == p[2]

\* *getFd = fd
SetFd(cs, p, fd) ==
    IF FdField(p) = "fdIn" THEN [cs EXCEPT ![FdNode(p) + 1].fdIn = fd]
    ELSE [cs EXCEPT ![FdNode(p) + 1].fdOut = fd]

\* the switch on stopReason; st is [b, commands, crash]
BuildSwitch(st, reason) ==
    LET bb == st.b
        cs == st.commands
        com == bb.com
    IN  IF reason \in {SR_SEQ_AND, SR_SEQ_OR, SR_PIPE, SR_REDIRECT_IN, SR_REDIRECT_OUT,
                       SR_REDIRECT_OUT_APPEND, SR_BACKGROUND} /\ com = NULL
            THEN [st EXCEPT !.crash = TRUE]
        ELSE IF reason = SR_SEQ_AND
            THEN [st EXCEPT !.commands = [cs EXCEPT ![com + 1].stopOnFailure = 1],
                            !.b = [bb EXCEPT !.lastCom = com]]
        ELSE IF reason = SR_SEQ_OR
            THEN [st EXCEPT !.commands = [cs EXCEPT ![com + 1].stopOnSuccess = 1],
                            !.b = [bb EXCEPT !.lastCom = com]]
        ELSE IF reason = SR_PIPE
            THEN [st EXCEPT !.commands = [cs EXCEPT ![com + 1].piped = 1,
                                                    ![com + 1].stopOnFailure = 1],
                            !.b = [bb EXCEPT !.lastCom = com]]
        ELSE IF reason = SR_REDIRECT_IN
            THEN [st EXCEPT !.b = [bb EXCEPT !.getFd = <<com, "fdIn">>,
                                             !.oflags = "O_RDONLY"]]
        ELSE IF reason = SR_REDIRECT_OUT
            THEN [st EXCEPT !.b = [bb EXCEPT !.getFd = <<com, "fdOut">>,
                                             !.oflags = "O_WRONLY|O_CREAT|O_TRUNC"]]
        ELSE IF reason = SR_REDIRECT_OUT_APPEND
            THEN [st EXCEPT !.b = [bb EXCEPT !.getFd = <<com, "fdOut">>,
                                             !.oflags = "O_WRONLY|O_CREAT|O_APPEND"]]
        ELSE IF reason = SR_BACKGROUND
            THEN [st EXCEPT !.commands = [cs EXCEPT ![com + 1].background = 1],
                            !.b = [bb EXCEPT !.continueLast = 1]]
        ELSE [st EXCEPT !.b = [bb EXCEPT !.chainCount = bb.chainCount + 1,
                                         !.lastCom = NULL]]

\* the branch taken while getFd is set: the arguments name the file to open.
\* r is the finished processArgs call, ok whether open succeeds.
BuildRedirect(r, ok) ==
    LET b1 == [b EXCEPT !.inputPos = b.inputPos + r.processed,
                        !.stopReason = r.stopReason]
        filename == StrAt(r.buf, Load(r.list, b.argTotal, NULL))
        b2 == [b1 EXCEPT !.argCharsTotal = b.argCharsTotal + r.argChars,
                         !.argTotal = b.argTotal + r.argCount + 1]
        fd == IF ok THEN LowestFree(openFds) ELSE OPEN_FAILED
        op == [name |-> filename, oflags |-> b.oflags, fd |-> fd, node |-> FdNode(b.getFd),
               field |-> FdField(b.getFd), made |-> Len(commands), pos |-> b.inputPos]
        tg == [pos |-> b.inputPos, by |-> b.stopReason, name |-> filename,
               named |-> ~(r.stopReason = SR_ERROR \/ r.argCount # 1)]
    IN  IF r.stopReason = SR_ERROR \/ r.argCount # 1
            THEN [b |-> b1, commands |-> commands, crash |-> FALSE, fds |-> openFds,
                  hist |-> [hist EXCEPT !.ev = "redirError",
                                        !.errPos = @ \cup {b1.inputPos},
                                        !.targets = @ \cup {tg}]]
        ELSE IF ~ok
            THEN [b |-> b2, commands |-> SetFd(commands, b.getFd, fd), crash |-> FALSE,
                  fds |-> openFds,
                  hist |-> [hist EXCEPT !.ev = "openFailed",
                                        !.errPos = @ \cup {b1.inputPos},
                                        !.targets = @ \cup {tg},
                                        !.opens = Append(@, op)]]
        ELSE LET st == [b |-> [b2 EXCEPT !.getFd = NullFd],
                        commands |-> SetFd(commands, b.getFd, fd), crash |-> FALSE]
                 sw == BuildSwitch(st, r.stopReason)
             IN  [b |-> sw.b, commands |-> sw.commands, crash |-> sw.crash,
                  fds |-> openFds \cup {fd},
                  hist |-> [hist EXCEPT !.ev = "opened", !.targets = @ \cup {tg},
                                        !.opens = Append(@, op)]]

\* the branch taken otherwise: the arguments are the next command
BuildCommand(r) ==
    LET b1 == [b EXCEPT !.inputPos = b.inputPos + r.processed,
                        !.stopReason = r.stopReason]
        n == b.commandCount
        node == [ argList |-> b.argTotal, fdIn |-> STDIN, fdOut |-> STDOUT,
                  stopOnFailure |-> 0, stopOnSuccess |-> 0, piped |-> 0,
                  background |-> 0, next |-> NULL ]
        linked == IF b.lastCom # NULL
                     THEN [commands EXCEPT ![b.lastCom + 1].next = n]
                     ELSE commands
        fresh == b.continueLast = 0
        cs2 == IF fresh THEN Append(linked, node) ELSE commands
        b2 == [b1 EXCEPT !.commandCount = IF fresh THEN n + 1 ELSE n,
                         !.com = IF fresh THEN n ELSE b.com,
                         !.argCharsTotal = b.argCharsTotal + r.argChars,
                         !.argTotal = b.argTotal + r.argCount + 1,
                         !.continueLast = 0]
        h2 == IF fresh
                 THEN [hist EXCEPT !.ev = "node",
                                   !.made = Append(@, [pos |-> b.inputPos,
                                                       argv |-> LexArgs(r),
                                                       args |-> r.args,
                                                       head |-> b.lastCom = NULL])]
                 ELSE [hist EXCEPT !.ev = "continued"]
    IN  IF r.stopReason = SR_ERROR /\ b.continueLast = 0
            THEN [b |-> b1, commands |-> commands, crash |-> FALSE, fds |-> openFds,
                  hist |-> [hist EXCEPT !.ev = "parseError",
                                        !.perr = @ \cup {[from |-> b.inputPos,
                                                          to |-> b1.inputPos,
                                                          argCount |-> r.argCount]}]]
        ELSE IF fresh /\ r.argCount = 0
            THEN [b |-> b1, commands |-> commands, crash |-> FALSE, fds |-> openFds,
                  hist |-> [hist EXCEPT !.ev = "skip"]]
        ELSE LET sw == BuildSwitch([b |-> b2, commands |-> cs2, crash |-> FALSE],
                                   r.stopReason)
             IN  [b |-> sw.b, commands |-> sw.commands, crash |-> sw.crash,
                  fds |-> openFds, hist |-> h2]

MainInit ==
    [ numCommandChains |-> 0, chainCount |-> 0, commandCount |-> 0,
      chainSkip |-> 0, exitStatus |-> 0 ]

ExecInit == [ chain |-> NULL, status |-> 0, allStatus |-> 0, stopped |-> 0 ]

\* main: if(strlen(input) > 0) buildCommandChains(...)
CallBuild ==
    /\ pc = "read"
    /\ Len(input) > 0
    /\ pc' = "build"
    /\ UNCHANGED <<procs, npipes, input, lx, argBuffer, argList, commands, b, m, x, openFds, hist>>

\* main: an empty line is not processed
SkipLine ==
    /\ pc = "read"
    /\ Len(input) = 0
    /\ pc' = "done"
    /\ UNCHANGED <<procs, npipes, input, lx, argBuffer, argList, commands, b, m, x, openFds, hist>>

\* one iteration of the do-while loop, and its test; after the last one
\* buildCommandChains returns chainCount to main, which starts its for loop
BuildStep ==
    /\ pc = "build"
    /\ \E ok \in (IF b.getFd # NullFd THEN BOOLEAN ELSE {TRUE}) :
         LET r == processArgs(input, b.inputPos, argBuffer, b.argCharsTotal,
                              argList, b.argTotal)
             res == IF b.getFd # NullFd THEN BuildRedirect(r, ok) ELSE BuildCommand(r)
             last == r.stopReason = SR_DONE
         IN  /\ lx' = r
             /\ argBuffer' = r.buf
             /\ argList' = r.list
             /\ b' = res.b
             /\ commands' = res.commands
             /\ openFds' = res.fds
             /\ hist' = res.hist
             /\ pc' = IF res.crash THEN "crash" ELSE IF last THEN "main" ELSE "build"
             /\ m' = IF last /\ ~res.crash
                        THEN [m EXCEPT !.numCommandChains = res.b.chainCount,
                                       !.commandCount = 0, !.chainCount = 0]
                        ELSE m
    /\ UNCHANGED <<procs, npipes, input, x>>

-----------------------------------------------------------------------------
(* The launchers.  A program that is launched reports an exit status the   *)
(* model chooses; wait and WEXITSTATUS are computed as the C library does. *)

Statuses == 0..MaxStatus

\* the values an int that was never assigned may hold
UninitInt == {-1, 0}

\* the status waitpid stores for a process that called exit(code)
WaitStatus(code) == (code % 256) * 256

\* WEXITSTATUS(status)
WEXITSTATUS(status) == (status \div 256) % 256

abs(v) == IF v < 0 THEN -v ELSE v

\* the nodes executePipedCommands(left, left->next) runs, left first: it recurses
\* on right while the node at hand is piped and has a successor
RECURSIVE Stages(_, _)
Stages(cs, left) ==
    IF Node(cs, left).piped # 0 /\ Node(cs, left).next # NULL
        THEN <<left>> \o Stages(cs, Node(cs, left).next)
        ELSE <<left>>

\* executeSingleCommand in a process forked by executePipedCommands: the value it
\* returns there, st[k] being the exit status of the program of stage k
SingleInChild(cs, list, mem, stages, st, k) ==
    IF IsExit(cs, list, mem, stages[k]) THEN 0 ELSE st[k]

\* executePipedCommands(left, right) for stage k of the pipeline and the ones after it
RECURSIVE PipedFrom(_, _, _, _, _, _)
PipedFrom(cs, list, mem, stages, st, k) ==
    IF k = Len(stages)
        THEN SingleInChild(cs, list, mem, stages, st, k)
        ELSE LET childExitStatus ==
                     WEXITSTATUS(WaitStatus(PipedFrom(cs, list, mem, stages, st, k + 1)))
                 exitStatus ==
                     WEXITSTATUS(WaitStatus(SingleInChild(cs, list, mem, stages, st, k)))
             IN  exitStatus + WEXITSTATUS(childExitStatus)

executePipedCommands(cs, list, mem, stages, st) == PipedFrom(cs, list, mem, stages, st, 1)

\* while(chain->piped) chain = chain->next: the node the walk stops at, NULL when
\* it runs off the end of the list
RECURSIVE SkipPiped(_, _)
SkipPiped(cs, n) ==
    IF n = NULL THEN NULL
    ELSE IF Node(cs, n).piped # 0 THEN SkipPiped(cs, Node(cs, n).next)
    ELSE n

\* the number of nodes from n up to, not including, the node t
RECURSIVE Distance(_, _, _)
Distance(cs, n, t) == IF n = t \/ n = NULL THEN 0 ELSE 1 + Distance(cs, Node(cs, n).next, t)

\* the descriptors executeSingleCommand closes after waitpid
ClosedBy(nd) ==
    (IF nd.fdIn # STDIN THEN {nd.fdIn} ELSE {}) \cup
    (IF nd.fdOut # STDOUT THEN {nd.fdOut} ELSE {})

\* Combine with a failed stopOnFailure node not stopping the chain
Combine_NoFailureStop(xx, nd, status) ==
    IF nd.stopOnFailure # 0
        THEN [xx EXCEPT !.status = status, !.allStatus = xx.allStatus + abs(status)]
    ELSE IF nd.stopOnSuccess # 0
        THEN [xx EXCEPT !.status = status, !.allStatus = xx.allStatus * status,
                        !.stopped = IF status = 0 THEN 1 ELSE 0]
    ELSE [xx EXCEPT !.status = status, !.allStatus = xx.allStatus + status]

\* Combine with a stopOnSuccess node adding its status instead of multiplying
Combine_AddOnSuccess(xx, nd, status) ==
    IF nd.stopOnFailure # 0
        THEN [xx EXCEPT !.status = status, !.allStatus = xx.allStatus + abs(status),
                        !.stopped = status]
    ELSE IF nd.stopOnSuccess # 0
        THEN [xx EXCEPT !.status = status, !.allStatus = xx.allStatus + status,
                        !.stopped = IF status = 0 THEN 1 ELSE 0]
    ELSE [xx EXCEPT !.status = status, !.allStatus = xx.allStatus + status]

\* the conditional logic applied to the node the walk is at
Combine(xx, nd, status) ==
    IF nd.stopOnFailure # 0
        THEN [xx EXCEPT !.status = status, !.allStatus = xx.allStatus + abs(status),
                        !.stopped = status]
    ELSE IF nd.stopOnSuccess # 0
        THEN [xx EXCEPT !.status = status, !.allStatus = xx.allStatus * status,
                        !.stopped = IF status = 0 THEN 1 ELSE 0]
    ELSE [xx EXCEPT !.status = status, !.allStatus = xx.allStatus + status]

-----------------------------------------------------------------------------
(* main's for loop and executeCommandChain.                                *)

\* main calls executeCommandChain(commands + commandCount, &chainSkip)
CallExecute ==
    /\ pc = "main"
    /\ m.chainCount < m.numCommandChains
    /\ \E g \in UninitInt :
         x' = [chain |-> m.commandCount, status |-> 0, allStatus |-> g, stopped |-> 0]
    /\ m' = [m EXCEPT !.chainSkip = 0]
    /\ pc' = "exec"
    /\ UNCHANGED <<procs, npipes, input, lx, argBuffer, argList, commands, b, openFds, hist>>

\* every chain of the line has been executed
LineDone ==
    /\ pc = "main"
    /\ m.chainCount >= m.numCommandChains
    /\ pc' = "done"
    /\ UNCHANGED <<procs, npipes, input, lx, argBuffer, argList, commands, b, m, x, openFds, hist>>

\* one iteration of while(chain) on a node that is run by itself
ExecSingle ==
    /\ pc = "exec"
    /\ x.chain # NULL
    /\ x.stopped = 0
    /\ Node(commands, x.chain).piped = 0
    /\ LET n == x.chain
           nd == Node(commands, n)
       IN  IF nd.argList = NULL
               THEN /\ pc' = "crash"
                    /\ UNCHANGED <<m, x, openFds, hist>>
           ELSE IF IsExit(commands, argList, argBuffer, n)
               THEN /\ pc' = "exited"
                    /\ hist' = [hist EXCEPT !.launched = Append(@, n)]
                    /\ UNCHANGED <<m, x, openFds>>
           ELSE \E s \in Statuses :
                    /\ x' = [Combine(x, nd, s) EXCEPT !.chain = nd.next]
                    /\ m' = [m EXCEPT !.chainSkip = m.chainSkip + 1]
                    /\ openFds' = openFds \ ClosedBy(nd)
                    /\ hist' = [hist EXCEPT
                                  !.launched = Append(@, n),
                                  !.spawned = Append(@, n),
                                  !.evals = Append(@, [node |-> n, status |-> s, own |-> s,
                                                       stages |-> <<n>>, st |-> <<s>>,
                                                       head |-> m.commandCount])]
                    /\ pc' = "exec"
    /\ UNCHANGED <<procs, npipes, input, lx, argBuffer, argList, commands, b>>

\* one iteration of while(chain) on a piped node: the pipeline is run, the walk
\* moves to its last node and the conditional logic is applied there
ExecPiped ==
    /\ pc = "exec"
    /\ x.chain # NULL
    /\ x.stopped = 0
    /\ Node(commands, x.chain).piped # 0
    /\ LET n == x.chain
           stages == Stages(commands, n)
           lastNode == SkipPiped(commands, n)
           top == Len(stages) = 1
       IN  IF top /\ IsExit(commands, argList, argBuffer, n)
               THEN /\ pc' = "exited"
                    /\ hist' = [hist EXCEPT !.launched = Append(@, n)]
                    /\ UNCHANGED <<m, x, openFds>>
           ELSE \E st \in [1..Len(stages) -> Statuses] :
                  LET status == IF top THEN st[1]
                                ELSE executePipedCommands(commands, argList, argBuffer,
                                                          stages, st)
                      ran == SelectSeq(stages,
                                 LAMBDA k : ~IsExit(commands, argList, argBuffer, k))
                      h2 == [hist EXCEPT !.launched = @ \o stages, !.spawned = @ \o ran]
                      fds == IF top THEN openFds \ ClosedBy(Node(commands, n)) ELSE openFds
                  IN  IF lastNode = NULL
                          THEN /\ pc' = "crash"
                               /\ hist' = h2
                               /\ openFds' = fds
                               /\ UNCHANGED <<m, x>>
                          ELSE /\ x' = [Combine(x, Node(commands, lastNode), status)
                                           EXCEPT !.chain = Node(commands, lastNode).next]
                               /\ m' = [m EXCEPT !.chainSkip =
                                           m.chainSkip + Distance(commands, n, lastNode) + 1]
                               /\ openFds' = fds
                               /\ hist' = [h2 EXCEPT !.evals =
                                             Append(@, [node |-> lastNode, status |-> status,
                                                        own |-> st[Len(stages)],
                                                        stages |-> stages,
                                                        st |-> st, head |-> m.commandCount])]
                               /\ pc' = "exec"
    /\ UNCHANGED <<procs, npipes, input, lx, argBuffer, argList, commands, b>>

\* one iteration of while(chain) after the chain was stopped: the node is counted only
ExecSkip ==
    /\ pc = "exec"
    /\ x.chain # NULL
    /\ x.stopped # 0
    /\ x' = [x EXCEPT !.chain = Node(commands, x.chain).next]
    /\ m' = [m EXCEPT !.chainSkip = m.chainSkip + 1]
    /\ UNCHANGED <<procs, npipes, input, lx, pc, argBuffer, argList, commands, b, openFds, hist>>

\* executeCommandChain returns allStatus; main adds chainSkip to commandCount
ExecReturn ==
    /\ pc = "exec"
    /\ x.chain = NULL
    /\ m' = [m EXCEPT !.exitStatus = x.allStatus,
                      !.commandCount = m.commandCount + m.chainSkip,
                      !.chainCount = m.chainCount + 1]
    /\ hist' = [hist EXCEPT !.returns = Append(@, [head |-> m.commandCount,
                                                   value |-> x.allStatus,
                                                   count |-> m.chainSkip])]
    /\ pc' = "main"
    /\ UNCHANGED <<procs, npipes, input, lx, argBuffer, argList, commands, b, x, openFds>>

-----------------------------------------------------------------------------
(* The launchers one system call at a time.  procs[p] is process p, its    *)
(* position in executePipedCommands or executeSingleCommand, its locals    *)
(* and its descriptor table; process 1 is the interpreter.  A descriptor   *)
(* refers to <<kind, id, end>>: the terminal, a file, or one end of a pipe; *)
(* the id of a pipe is <<its number, the process that created it>>.        *)

SHELL == 1

TTY == <<"tty", <<0, 0>>, "">>
FileOf(fd) == <<"file", <<fd, 0>>, "">>
PipeEnd(id, end) == <<"pipe", id, end>>

\* a process that has terminated holds no descriptor
NoFds == [d \in {} |-> TTY]

\* the descriptor table of the interpreter, from the set of its open descriptors
FdsOf(fdset) ==
    [d \in fdset |-> IF d \in {STDIN, STDOUT, STDERR} THEN TTY ELSE FileOf(d)]

\* close(fd)
Close(fds, fd) == [d \in (DOMAIN fds) \ {fd} |-> fds[d]]

\* dup2(old, new): fails, changing nothing, when old is not open or new is negative
Dup2(fds, old, new) ==
    IF old \notin DOMAIN fds \/ new < 0 \/ old = new THEN fds
    ELSE [d \in (DOMAIN fds) \cup {new} |-> IF d = new THEN fds[old] ELSE fds[d]]

ShellProc ==
    [ parent |-> 0, pc |-> "idle", node |-> NULL, launch |-> 0,
      fds |-> FdsOf({STDIN, STDOUT, STDERR}), commandPipe |-> <<NULL, NULL>>,
      pidRight |-> 0, pidLeft |-> 0, pid |-> 0,
      exitStatus |-> 0, childExitStatus |-> 0, wstatus |-> 0, untilEof |-> FALSE ]

Pids == DOMAIN procs

Terminated(p) == procs[p].pc \in {"zombie", "reaped"}

\* exit(code), or the end of a program: the process leaves a status to wait for
Terminate(pr, code) ==
    [pr EXCEPT !.pc = "zombie", !.wstatus = WaitStatus(code), !.fds = NoFds]

\* fork(): the child is a copy of the parent that resumes at position at
Child(p, at) == [procs[p] EXCEPT !.parent = p, !.pc = at]

\* the process identifiers fork gives the children of process p: the one forked
\* as pidRight, the one forked as pidLeft, the one forked by executeSingleCommand
RightPid(p) == 3 * p - 1
LeftPid(p) == 3 * p
SinglePid(p) == 3 * p + 1

\* the process table after process p, moving to position at, forked child q that
\* resumes at position from
Forked(p, at, q, from) ==
    (q :> Child(p, from)) @@ [procs EXCEPT ![p].pc = at]

\* the test of line 489 on entry to executePipedCommands(left, left->next)
EnterPiped(n) ==
    IF Node(commands, n).piped # 0 /\ Node(commands, n).next # NULL
        THEN "pipe" ELSE "single"

\* the processes that hold the write end of pipe id
Writers(id) ==
    { q \in Pids : \E d \in DOMAIN procs[q].fds : procs[q].fds[d] = PipeEnd(id, "w") }

\* a read of standard input by process p returns end-of-file
AtEof(p) ==
    /\ STDIN \in DOMAIN procs[p].fds
    /\ procs[p].fds[STDIN][1] = "pipe"
    /\ Writers(procs[p].fds[STDIN][2]) = {}

\* the chain executor calls executePipedCommands or executeSingleCommand on the node
\* it stands at
ProcLaunch ==
    /\ pc = "exec"
    /\ x.chain # NULL
    /\ x.stopped = 0
    /\ IF Node(commands, x.chain).argList = NULL
          THEN /\ pc' = "crash"
               /\ UNCHANGED <<procs, hist>>
          ELSE /\ pc' = "launch"
               /\ procs' = [procs EXCEPT
                     ![SHELL].pc = IF Node(commands, x.chain).piped # 0
                                      THEN EnterPiped(x.chain) ELSE "single",
                     ![SHELL].node = x.chain,
                     ![SHELL].launch = @ + 1,
                     ![SHELL].fds = FdsOf(openFds)]
               /\ hist' = [hist EXCEPT !.starts = Append(@, x.chain)]
    /\ UNCHANGED <<npipes, input, lx, argBuffer, argList, commands, b, m, x, openFds>>

\* pipe(commandPipe)
DoPipe ==
    /\ \E p \in Pids :
         /\ procs[p].pc = "pipe"
         /\ LET r == LowestFree(DOMAIN procs[p].fds)
                w == LowestFree((DOMAIN procs[p].fds) \cup {r})
                id == <<npipes + 1, p>>
            IN  /\ procs' = [procs EXCEPT
                      ![p].fds = [d \in (DOMAIN procs[p].fds) \cup {r, w} |->
                                     IF d = r THEN PipeEnd(id, "r")
                                     ELSE IF d = w THEN PipeEnd(id, "w")
                                     ELSE procs[p].fds[d]],
                      ![p].commandPipe = <<r, w>>,
                      ![p].pc = "forkRight"]
                /\ npipes' = npipes + 1
    /\ UNCHANGED <<input, lx, pc, argBuffer, argList, commands, b, m, x, openFds, hist>>

\* pidRight = fork()
ForkRight ==
    /\ \E p \in Pids :
         /\ procs[p].pc = "forkRight"
         /\ RightPid(p) \notin Pids
         /\ procs' = [Forked(p, "forkLeft", RightPid(p), "rightClose")
                         EXCEPT ![p].pidRight = RightPid(p)]
    /\ UNCHANGED <<npipes, input, lx, pc, argBuffer, argList, commands, b, m, x, openFds, hist>>

\* the right child: close(commandPipe[1])
RightClose ==
    /\ \E p \in Pids :
         /\ procs[p].pc = "rightClose"
         /\ procs' = [procs EXCEPT
               ![p].fds = Close(@, procs[p].commandPipe[2]),
               ![p].pc = "rightDup"]
    /\ UNCHANGED <<npipes, input, lx, pc, argBuffer, argList, commands, b, m, x, openFds, hist>>

\* the right child: dup2(commandPipe[0], right->fdIn), then it enters
\* executePipedCommands(right, right->next)
RightDup ==
    /\ \E p \in Pids :
         /\ procs[p].pc = "rightDup"
         /\ LET right == Node(commands, procs[p].node).next
            IN  procs' = [procs EXCEPT
                   ![p].fds = Dup2(@, procs[p].commandPipe[1], Node(commands, right).fdIn),
                   ![p].node = right,
                   ![p].pc = EnterPiped(right)]
    /\ UNCHANGED <<npipes, input, lx, pc, argBuffer, argList, commands, b, m, x, openFds, hist>>

\* pidLeft = fork()
ForkLeft ==
    /\ \E p \in Pids :
         /\ procs[p].pc = "forkLeft"
         /\ LeftPid(p) \notin Pids
         /\ procs' = [Forked(p, "closeRead", LeftPid(p), "leftClose")
                         EXCEPT ![p].pidLeft = LeftPid(p)]
    /\ UNCHANGED <<npipes, input, lx, pc, argBuffer, argList, commands, b, m, x, openFds, hist>>

\* the left child: close(commandPipe[0])
LeftClose ==
    /\ \E p \in Pids :
         /\ procs[p].pc = "leftClose"
         /\ procs' = [procs EXCEPT
               ![p].fds = Close(@, procs[p].commandPipe[1]),
               ![p].pc = "leftDup"]
    /\ UNCHANGED <<npipes, input, lx, pc, argBuffer, argList, commands, b, m, x, openFds, hist>>

\* the left child: dup2(commandPipe[1], left->fdOut), then it enters
\* executeSingleCommand(left)
LeftDup ==
    /\ \E p \in Pids :
         /\ procs[p].pc = "leftDup"
         /\ procs' = [procs EXCEPT
               ![p].fds = Dup2(@, procs[p].commandPipe[2],
                               Node(commands, procs[p].node).fdOut),
               ![p].pc = "single"]
    /\ UNCHANGED <<npipes, input, lx, pc, argBuffer, argList, commands, b, m, x, openFds, hist>>

\* the orchestrating process: close(commandPipe[0])
CloseRead ==
    /\ \E p \in Pids :
         /\ procs[p].pc = "closeRead"
         /\ procs' = [procs EXCEPT
               ![p].fds = Close(@, procs[p].commandPipe[1]),
               ![p].pc = "closeWrite"]
    /\ UNCHANGED <<npipes, input, lx, pc, argBuffer, argList, commands, b, m, x, openFds, hist>>

\* CloseWrite with the orchestrating process keeping the write end open
CloseWrite_KeepsOpen ==
    /\ \E p \in Pids :
         /\ procs[p].pc = "closeWrite"
         /\ procs' = [procs EXCEPT ![p].pc = "waitRight"]
    /\ UNCHANGED <<npipes, input, lx, pc, argBuffer, argList, commands, b, m, x, openFds, hist>>

\* the orchestrating process: close(commandPipe[1])
CloseWrite ==
    /\ \E p \in Pids :
         /\ procs[p].pc = "closeWrite"
         /\ procs' = [procs EXCEPT
               ![p].fds = Close(@, procs[p].commandPipe[2]),
               ![p].pc = "waitRight"]
    /\ UNCHANGED <<npipes, input, lx, pc, argBuffer, argList, commands, b, m, x, openFds, hist>>

\* waitpid(pidRight, &childExitStatus, 0); childExitStatus = WEXITSTATUS(childExitStatus)
WaitRight ==
    /\ \E p \in Pids :
         /\ procs[p].pc = "waitRight"
         /\ procs[procs[p].pidRight].pc = "zombie"
         /\ procs' = [procs EXCEPT
               ![p].childExitStatus = WEXITSTATUS(procs[procs[p].pidRight].wstatus),
               ![p].pc = "waitLeft",
               ![procs[p].pidRight].pc = "reaped"]
    /\ UNCHANGED <<npipes, input, lx, pc, argBuffer, argList, commands, b, m, x, openFds, hist>>

\* waitpid(pidLeft, &exitStatus, 0); exitStatus = WEXITSTATUS(exitStatus);
\* exitStatus += WEXITSTATUS(childExitStatus); return exitStatus
WaitLeft ==
    /\ \E p \in Pids :
         /\ procs[p].pc = "waitLeft"
         /\ procs[procs[p].pidLeft].pc = "zombie"
         /\ procs' = [procs EXCEPT
               ![p].exitStatus = WEXITSTATUS(procs[procs[p].pidLeft].wstatus)
                                   + WEXITSTATUS(procs[p].childExitStatus),
               ![p].pc = "return",
               ![procs[p].pidLeft].pc = "reaped"]
    /\ UNCHANGED <<npipes, input, lx, pc, argBuffer, argList, commands, b, m, x, openFds, hist>>

\* executeSingleCommand up to fork(): the exit built-in ends the calling process,
\* any other command forks
SingleFork ==
    /\ \E p \in Pids :
         /\ procs[p].pc = "single"
         /\ LET n == procs[p].node
            IN  IF IsExit(commands, argList, argBuffer, n)
                    THEN /\ procs' = [procs EXCEPT ![p] = Terminate(@, 0)]
                         /\ pc' = IF p = SHELL THEN "exited" ELSE pc
                    ELSE /\ SinglePid(p) \notin Pids
                         /\ procs' = [Forked(p, "wait", SinglePid(p), "child")
                                         EXCEPT ![p].pid = SinglePid(p)]
                         /\ pc' = pc
    /\ UNCHANGED <<npipes, input, lx, argBuffer, argList, commands, b, m, x, openFds, hist>>

\* the forked child: dup2(fdIn, 0); dup2(fdOut, 1); execvp.  The program reads its
\* standard input to the end when e is true, and ends on its own otherwise.
ChildExec ==
    /\ \E p \in Pids :
         /\ procs[p].pc = "child"
         /\ LET nd == Node(commands, procs[p].node)
                fds == Dup2(Dup2(procs[p].fds, nd.fdIn, STDIN), nd.fdOut, STDOUT)
                piped == STDIN \in DOMAIN fds /\ fds[STDIN][1] = "pipe"
            IN  \E e \in (IF piped THEN BOOLEAN ELSE {FALSE}) :
                   procs' = [procs EXCEPT ![p].fds = fds,
                                          ![p].untilEof = e,
                                          ![p].pc = "program"]
    /\ UNCHANGED <<npipes, input, lx, pc, argBuffer, argList, commands, b, m, x, openFds, hist>>

\* the program ends with some exit status
ProgramEnd ==
    /\ \E p \in Pids :
         /\ procs[p].pc = "program"
         /\ procs[p].untilEof => AtEof(p)
         /\ \E s \in Statuses : procs' = [procs EXCEPT ![p] = Terminate(@, s)]
    /\ UNCHANGED <<npipes, input, lx, pc, argBuffer, argList, commands, b, m, x, openFds, hist>>

\* SingleWait honouring the background flag: a background command is not waited for
SingleWait_BackgroundNoWait ==
    /\ \E p \in Pids :
         /\ procs[p].pc = "wait"
         /\ LET nd == Node(commands, procs[p].node)
                f1 == IF nd.fdIn # STDIN THEN Close(procs[p].fds, nd.fdIn) ELSE procs[p].fds
                f2 == IF nd.fdOut # STDOUT THEN Close(f1, nd.fdOut) ELSE f1
            IN  IF nd.background # 0
                    THEN procs' = [procs EXCEPT ![p].exitStatus = 0,
                                                ![p].fds = f2,
                                                ![p].pc = "return"]
                    ELSE /\ procs[procs[p].pid].pc = "zombie"
                         /\ procs' = [procs EXCEPT
                               ![p].exitStatus = WEXITSTATUS(procs[procs[p].pid].wstatus),
                               ![p].fds = f2,
                               ![p].pc = "return",
                               ![procs[p].pid].pc = "reaped"]
    /\ UNCHANGED <<npipes, input, lx, pc, argBuffer, argList, commands, b, m, x, openFds, hist>>

\* executeSingleCommand after fork(): waitpid(pid, &exitStatus, 0), the two closes,
\* exitStatus = WEXITSTATUS(exitStatus); return exitStatus
SingleWait ==
    /\ \E p \in Pids :
         /\ procs[p].pc = "wait"
         /\ procs[procs[p].pid].pc = "zombie"
         /\ LET nd == Node(commands, procs[p].node)
                f1 == IF nd.fdIn # STDIN THEN Close(procs[p].fds, nd.fdIn) ELSE procs[p].fds
                f2 == IF nd.fdOut # STDOUT THEN Close(f1, nd.fdOut) ELSE f1
            IN  procs' = [procs EXCEPT
                   ![p].exitStatus = WEXITSTATUS(procs[procs[p].pid].wstatus),
                   ![p].fds = f2,
                   ![p].pc = "return",
                   ![procs[p].pid].pc = "reaped"]
    /\ UNCHANGED <<npipes, input, lx, pc, argBuffer, argList, commands, b, m, x, openFds, hist>>

\* a forked process: exit(executePipedCommands(...)) or exit(executeSingleCommand(...))
ChildExit ==
    /\ \E p \in Pids \ {SHELL} :
         /\ procs[p].pc = "return"
         /\ procs' = [procs EXCEPT ![p] = Terminate(@, procs[p].exitStatus)]
    /\ UNCHANGED <<npipes, input, lx, pc, argBuffer, argList, commands, b, m, x, openFds, hist>>

\* the launcher returns to executeCommandChain: the walk moves to the last node of
\* the pipeline and the conditional logic is applied there
ProcFinish ==
    /\ pc = "launch"
    /\ procs[SHELL].pc = "return"
    /\ LET n == x.chain
           status == procs[SHELL].exitStatus
           lastNode == SkipPiped(commands, n)
       IN  IF lastNode = NULL
               THEN /\ pc' = "crash"
                    /\ UNCHANGED <<m, x, hist>>
               ELSE /\ x' = [Combine(x, Node(commands, lastNode), status)
                                EXCEPT !.chain = Node(commands, lastNode).next]
                    /\ m' = [m EXCEPT !.chainSkip =
                                m.chainSkip + Distance(commands, n, lastNode) + 1]
                    /\ hist' = [hist EXCEPT !.evals =
                                  Append(@, [node |-> lastNode, status |-> status,
                                             own |-> status,
                                             stages |-> Stages(commands, n),
                                             st |-> <<>>, head |-> m.commandCount])]
                    /\ pc' = "exec"
    /\ procs' = [p \in { q \in Pids : q = SHELL \/ ~Terminated(q) } |->
                    IF p = SHELL THEN [procs[p] EXCEPT !.pc = "idle"] ELSE procs[p]]
    /\ openFds' = DOMAIN procs[SHELL].fds
    /\ UNCHANGED <<npipes, input, lx, argBuffer, argList, commands, b>>

-----------------------------------------------------------------------------
(* The lines the interpreter is given.                                     *)

\* what stands between two operators: nothing, a command name, the built-in, an
\* empty quoted string
Words == { <<>>, <<"a">>, <<"e", "x", "i", "t">>, <<DQUOTE, DQUOTE>> }

\* the separators and control operators
Ops ==
    { <<" ">>, <<";">>, <<"&">>, <<"&", "&">>, <<"|">>, <<"|", "|">>,
      <<"<">>, <<"<", "<">>, <<">">>, <<">", ">">> }

\* fgets keeps the newline; a line cut by end of file has none
LineEnds == { <<"\n">>, <<>> }

\* the line word operator word ... operator word end
RECURSIVE LineOf(_, _, _)
LineOf(ws, os, e) ==
    IF os = <<>> THEN Head(ws) \o e
    ELSE Head(ws) \o Head(os) \o LineOf(Tail(ws), Tail(os), e)

\* str is a line with at most n operators
IsLine(str, n) ==
    \E k \in 0..n : \E ws \in [1..(k + 1) -> Words] : \E os \in [1..k -> Ops] :
        \E e \in LineEnds : str = LineOf(ws, os, e)

StartState ==
    /\ lx = LexInit(0, <<>>, 0, <<>>, 0)
    /\ argBuffer = <<>>
    /\ argList = <<>>
    /\ commands = <<>>
    /\ b = BuildInit
    /\ m = MainInit
    /\ x = ExecInit
    /\ openFds = {STDIN, STDOUT, STDERR}
    /\ hist = HistInit
    /\ procs = (SHELL :> ShellProc)
    /\ npipes = 0

Init ==
    /\ IsLine(input, MaxOps)
    /\ pc = "read"
    /\ StartState

Next ==
    \/ CallBuild
    \/ SkipLine
    \/ BuildStep
    \/ CallExecute
    \/ ExecSingle
    \/ ExecPiped
    \/ ExecSkip
    \/ ExecReturn
    \/ LineDone

Spec == Init /\ [][Next]_vars

-----------------------------------------------------------------------------
(* The lexer by itself: one call of processArgs on a whole line, one       *)
(* iteration of its loop at a time.                                        *)

LexChars == { "a", " ", "\n", ";", "&", "|", "<", ">", BACKSLASH, SQUOTE, DQUOTE }

\* str is a line of at most n characters
IsLexLine(str, n) == \E k \in 0..n : str \in [1..k -> LexChars]

LexSpecInit ==
    /\ IsLexLine(input, MaxLexLen)
    /\ pc = "lex"
    /\ StartState

\* one iteration of the loop of processArgs
LexIterate ==
    /\ pc = "lex"
    /\ lx.running
    /\ lx' = LexStep(input, lx)
    /\ pc' = IF lx'.running THEN "lex" ELSE "lexed"
    /\ UNCHANGED <<procs, npipes, input, argBuffer, argList, commands, b, m, x, openFds, hist>>

LexNext == LexIterate

LexSpec == LexSpecInit /\ [][LexNext]_vars

-----------------------------------------------------------------------------
(* The process-level specification: the builder as before, the launchers   *)
(* one system call at a time.                                              *)

\* the lines of the process-level specification
ProcWords == { <<>>, <<"a">>, <<"e", "x", "i", "t">> }

ProcOps == { <<";">>, <<"&">>, <<"&", "&">>, <<"|">> }

IsProcLine(str, n) ==
    \E k \in 0..n : \E ws \in [1..(k + 1) -> ProcWords] : \E os \in [1..k -> ProcOps] :
        str = LineOf(ws, os, <<"\n">>)

ProcInit ==
    /\ IsProcLine(input, MaxProcOps)
    /\ pc = "read"
    /\ StartState

\* the steps of the processes inside the launchers
Scheduled ==
    \/ DoPipe
    \/ ForkRight
    \/ RightClose
    \/ RightDup
    \/ ForkLeft
    \/ LeftClose
    \/ LeftDup
    \/ CloseRead
    \/ CloseWrite
    \/ WaitRight
    \/ WaitLeft
    \/ SingleFork
    \/ ChildExec
    \/ ProgramEnd
    \/ SingleWait
    \/ ChildExit
    \/ ProcFinish

\* every line ends with a newline here, so main never skips it
ProcNext ==
    \/ CallBuild
    \/ BuildStep
    \/ CallExecute
    \/ ExecSkip
    \/ ExecReturn
    \/ LineDone
    \/ ProcLaunch
    \/ Scheduled

ProcSpec == ProcInit /\ [][ProcNext]_vars

\* fair scheduling: while some process can take a step, one of them eventually does
ProcLive == ProcSpec /\ WF_vars(Scheduled)

-----------------------------------------------------------------------------
(* The builder by itself, on longer lines: main up to the return of        *)
(* buildCommandChains.                                                     *)

BuildWords == { <<>>, <<"a">>, <<DQUOTE, DQUOTE>> }

BuildOps == { <<" ">>, <<";">>, <<"&">>, <<"|">> }

IsBuildLine(str, n) ==
    \E k \in 0..n : \E ws \in [1..(k + 1) -> BuildWords] : \E os \in [1..k -> BuildOps] :
        str = LineOf(ws, os, <<"\n">>)

BuildSpecInit ==
    /\ IsBuildLine(input, MaxBuildOps)
    /\ pc = "read"
    /\ StartState

\* every line ends with a newline here, so main never skips it
BuildNext ==
    \/ CallBuild
    \/ BuildStep

BuildSpec == BuildSpecInit /\ [][BuildNext]_vars

-----------------------------------------------------------------------------
(* What the properties speak of.                                           *)

\* the nodes after n in its chain
RECURSIVE After(_, _)
After(cs, n) ==
    IF Node(cs, n).next = NULL THEN {}
    ELSE {Node(cs, n).next} \cup After(cs, Node(cs, n).next)

\* the nodes handed to executeSingleCommand so far
Launched == { hist.launched[i] : i \in 1..Len(hist.launched) }

Evals == { hist.evals[i] : i \in 1..Len(hist.evals) }

Returns == { hist.returns[i] : i \in 1..Len(hist.returns) }

\* the executor stands at node n and is about to run it
AboutToRun(n) == pc = "exec" /\ x.chain = n /\ x.stopped = 0

RECURSIVE SumSeq(_)
SumSeq(q) == IF q = <<>> THEN 0 ELSE Head(q) + SumSeq(Tail(q))

\* buildCommandChains has returned
Built == pc \in {"main", "exec", "done", "exited"}

-----------------------------------------------------------------------------
(* The claims.                                                             *)

\* C1: when every chain of a line has been executed (no exit built-in reached), the
\* sum of the traversed counts executeCommandChain reported equals the number of
\* command nodes buildCommandChains created for the line.
C1_TraversedEqualsBuilt == pc = "done" => m.commandCount = b.commandCount

\* C2: for every node N carrying stopOnFailure that the executor evaluates: if the
\* status obtained for N is non-zero, no node after N in its chain is ever launched;
\* if it is zero, the node following N is launched (it is the next thing the
\* executor does).
C2_StopOnFailure ==
    \A e \in Evals :
        LET nd == Node(commands, e.node)
        IN  nd.stopOnFailure # 0 =>
              /\ e.status # 0 => After(commands, e.node) \cap Launched = {}
              /\ (e.status = 0 /\ nd.next # NULL) =>
                    (nd.next \in Launched \/ AboutToRun(nd.next))

\* C2 witness: the line is done, a stopOnFailure node got a non-zero status, and a
\* later node of its chain carries stopOnSuccess and has a successor of its own
C2_Witness ==
    /\ pc = "done"
    /\ \E e \in Evals :
         /\ Node(commands, e.node).stopOnFailure # 0
         /\ e.status # 0
         /\ \E k \in After(commands, e.node) :
              Node(commands, k).stopOnSuccess # 0 /\ After(commands, k) # {}

\* C3 as stated: for every node N carrying stopOnSuccess: if N exits with status 0,
\* no node after N in its chain is launched and the chain's combined status is 0; if
\* N exits non-zero, the node following N is launched.
C3_Original ==
    \A e \in Evals :
        LET nd == Node(commands, e.node)
        IN  nd.stopOnSuccess # 0 =>
              /\ e.own = 0 =>
                    /\ After(commands, e.node) \cap Launched = {}
                    /\ \A r \in Returns : r.head = e.head => r.value = 0
              /\ (e.own # 0 /\ nd.next # NULL) =>
                    (nd.next \in Launched \/ AboutToRun(nd.next))

\* C3 amended: for every node N carrying stopOnSuccess that the executor evaluates:
\* if the status obtained for N (its exit status when it is run by itself, the value
\* of executePipedCommands when it ends a pipeline) is 0, no node after N in its
\* chain is launched and the chain's combined status is 0, whatever came before; if
\* that status is non-zero, the node following N is launched.
C3_StopOnSuccess ==
    \A e \in Evals :
        LET nd == Node(commands, e.node)
        IN  nd.stopOnSuccess # 0 =>
              /\ e.status = 0 =>
                    /\ After(commands, e.node) \cap Launched = {}
                    /\ \A r \in Returns : r.head = e.head => r.value = 0
                    /\ (pc = "exec" /\ m.commandCount = e.head) => x.allStatus = 0
              /\ (e.status # 0 /\ nd.next # NULL) =>
                    (nd.next \in Launched \/ AboutToRun(nd.next))

\* C3 witness: the line is done; in one chain a node got a non-zero status, a later
\* stopOnSuccess node with a successor got status 0, and the chain returned
C3_Witness ==
    /\ pc = "done"
    /\ \E i, j \in 1..Len(hist.evals) :
         /\ i < j
         /\ hist.evals[i].head = hist.evals[j].head
         /\ hist.evals[i].status # 0
         /\ Node(commands, hist.evals[j].node).stopOnSuccess # 0
         /\ hist.evals[j].status = 0
         /\ After(commands, hist.evals[j].node) # {}
         /\ \E r \in Returns : r.head = hist.evals[j].head

\* the nodes of the chain that starts at head carry no flag
Flagless(head) ==
    \A n \in {head} \cup After(commands, head) :
        /\ Node(commands, n).stopOnFailure = 0
        /\ Node(commands, n).stopOnSuccess = 0
        /\ Node(commands, n).piped = 0

\* C4: for a chain whose nodes carry none of stopOnFailure, stopOnSuccess, piped, the
\* combined status executeCommandChain returns is the sum of the exit statuses of
\* its nodes (0 for a single command that exits 0).
C4_SumOfStatuses ==
    \A r \in Returns :
        Flagless(r.head) =>
            r.value = SumSeq([i \in 1..Len(hist.evals) |->
                                 IF hist.evals[i].head = r.head
                                     THEN hist.evals[i].status ELSE 0])

\* C5: for a pipeline of n >= 2 stages with stage exit statuses s1..sn,
\* executePipedCommands returns s1 + ... + sn.
C5_PipelineSum ==
    \A e \in Evals :
        (/\ Len(e.stages) >= 2
         /\ \A k \in 1..Len(e.stages) :
                ~IsExit(commands, argList, argBuffer, e.stages[k])
         /\ SumSeq(e.st) <= 255)
            => e.status = SumSeq(e.st)

\* C6: when the last argument's characters run up to the terminating NUL,
\* processArgs returns that argument as the last element of its argument list,
\* with stop reason end-of-input.
C6_FlushAtEnd ==
    (pc = "lexed" /\ lx.stopReason = SR_DONE /\ Len(lx.curArg) > 0) =>
        /\ lx.argCount >= 1
        /\ LexArgs(lx)[lx.argCount] = lx.curArg

\* the line is a quote, a non-empty content without that quote and without
\* backslash, the same quote, a newline
QuotedLine(str) ==
    /\ Len(str) >= 4
    /\ str[1] \in {SQUOTE, DQUOTE}
    /\ str[Len(str)] = "\n"
    /\ str[Len(str) - 1] = str[1]
    /\ \A i \in 2..(Len(str) - 2) : str[i] \notin {str[1], BACKSLASH}

QuotedContent(str) == SubSeq(str, 2, Len(str) - 2)

\* C7: lexing a non-empty content (no backslash, no enclosing quote) wrapped in a
\* matching pair of quotes and followed by a newline yields exactly one argument,
\* equal to the content.
C7_QuotingRoundTrip ==
    (pc = "lexed" /\ QuotedLine(input)) => LexArgs(lx) = <<QuotedContent(input)>>

\* C8: an unquoted, unescaped backslash is not appended and escapes the next
\* character; the escaped character x (not NUL) is appended, exactly x, to the
\* argument being accumulated; it ends no argument, gives no stop reason, opens or
\* closes no quoted region, and the escape is over after it.
C8_Escaping ==
    [][ (pc = "lex" /\ lx.running /\ ~lx.quoted /\ CharAt(input, lx.c) # NUL) =>
          /\ (CharAt(input, lx.c) = BACKSLASH /\ ~lx.escaped) =>
                /\ lx'.escaped
                /\ lx'.curArg = lx.curArg
                /\ lx'.c = lx.c + 1
          /\ lx.escaped =>
                /\ lx'.curArg = Append(lx.curArg, CharAt(input, lx.c))
                /\ ~lx'.escaped
                /\ lx'.c = lx.c + 1
          /\ ((CharAt(input, lx.c) = BACKSLASH) \/ lx.escaped) =>
                /\ lx'.running
                /\ lx'.stopReason = SR_UNSET
                /\ lx'.argCount = lx.argCount
                /\ lx'.quoted = lx.quoted
      ]_vars

\* C8 witness: a backslash and a control, quote, whitespace or backslash character,
\* then a newline, were lexed into the one-character argument
C8_Witness ==
    /\ pc = "lexed"
    /\ Len(input) = 3
    /\ input[1] = BACKSLASH
    /\ input[2] \in {";", "|", SQUOTE, DQUOTE, " ", BACKSLASH}
    /\ input[3] = "\n"
    /\ LexArgs(lx) = << <<input[2]>> >>

\* the characters of a well-formed segment: command names and whitespace
PlainChars == {"a", "e", "x", "i", "t", " ", "\n"}

\* [s, e] (0-based) is a segment between two ';' (or the ends of the line) that
\* holds a command name and nothing but names and whitespace
PlainSegment(str, s, e) ==
    /\ s <= e
    /\ (s = 0 \/ CharAt(str, s - 1) = ";")
    /\ (e = Len(str) - 1 \/ CharAt(str, e + 1) = ";")
    /\ \A i \in s..e : CharAt(str, i) \in PlainChars
    /\ \E i \in s..e : ~ISWHITESPACE(CharAt(str, i))
    /\ CharAt(str, Len(str) - 1) = "\n"

\* the number of chain heads among the first k nodes
HeadsUpTo(k) == Cardinality({ i \in 1..k : hist.made[i].head })

\* C9: after a redirection error (the filename call ended at input position p), every
\* well-formed ';'-separated segment that follows on the line is built as a chain of
\* its own, counted in the chain count, and executed.
C9_SiblingChainsSurvive ==
    Built =>
      \A p \in hist.errPos :
        \A s \in 0..(Len(input) - 1) : \A e \in s..(Len(input) - 1) :
          (PlainSegment(input, s, e) /\ s >= p) =>
             \E k \in 1..Len(hist.made) :
                /\ hist.made[k].pos \in s..e
                /\ hist.made[k].head
                /\ HeadsUpTo(k) <= m.numCommandChains
                /\ pc = "done" => (k - 1) \in Launched

\* C10: right after an open for a redirection failed, the descriptor field it was
\* for holds the default descriptor.
C10_DefaultAfterFailedOpen ==
    hist.ev = "openFailed" =>
        LET op == hist.opens[Len(hist.opens)]
        IN  IF op.field = "fdIn"
                THEN Node(commands, op.node).fdIn = STDIN
                ELSE Node(commands, op.node).fdOut = STDOUT


\* the positions in hist.launched of the nodes whose arguments[0] is "exit"
ExitLaunches ==
    { i \in 1..Len(hist.launched) :
        IsExit(commands, argList, argBuffer, hist.launched[i]) }

\* C11: whenever executeSingleCommand is invoked on a node whose arguments[0] is
\* "exit", by the chain executor directly or as a stage of a pipeline, the
\* interpreter process terminates, and no later node of the line is executed.
C11_ExitTerminates ==
    \A i \in ExitLaunches : pc = "exited" /\ i = Len(hist.launched)


\* the Lexer call that scanned [pe.from, pe.to) met a control character as its
\* first non-whitespace character
LeadingControl(pe) ==
    /\ ISCONTROLCHAR(CharAt(input, pe.to - 1))
    /\ \A i \in pe.from..(pe.to - 2) : ISWHITESPACE(CharAt(input, i))

\* the parse errors buildCommandChains reported for such calls
LeadingErrors == { pe \in hist.perr : LeadingControl(pe) }

\* C12: when a control character is the first non-whitespace token of a segment
\* scanned in normal mode, the call consumed up through that character and returned
\* no argument, no command node is created for the segment, and every well-formed
\* segment later on the line is built into a counted chain and executed.
C12_ParseErrorRecovery ==
    Built =>
      \A pe \in LeadingErrors :
        /\ pe.argCount = 0
        /\ \A k \in 1..Len(hist.made) : hist.made[k].pos \notin pe.from..(pe.to - 1)
        /\ \A s \in pe.to..(Len(input) - 1) : \A e \in s..(Len(input) - 1) :
             PlainSegment(input, s, e) =>
               \E k \in 1..Len(hist.made) :
                  /\ hist.made[k].pos \in s..e
                  /\ HeadsUpTo(k) \in 1..m.numCommandChains
                  /\ pc = "done" => (k - 1) \in Launched


\* C13: each command node's argument vector (the entries of its argList up to the
\* first NULL, with their string contents) is exactly the argument sequence of the
\* Lexer call that created the node.
C13_ArgvIsLexed ==
    \A k \in 1..Len(hist.made) :
        Argv(commands, argList, argBuffer, k - 1) = hist.made[k].args


\* an iteration of the builder's loop that reached the switch on stopReason
ReachedSwitch(ev) == ev \in {"node", "continued", "opened"}

\* C14: when the Lexer stops with redirect-input-heredoc, buildCommandChains reacts
\* as for redirect-input: it enters redirection-target mode for the node's fdIn with
\* read-only access, and the current chain is not closed.
C14_HeredocAsRedirectIn ==
    [][ (/\ pc = "build"
         /\ pc' = "build"
         /\ b'.stopReason = SR_REDIRECT_IN_HERE
         /\ ReachedSwitch(hist'.ev)) =>
            /\ b'.getFd = <<b'.com, "fdIn">>
            /\ b'.oflags = "O_RDONLY"
            /\ b'.chainCount = b.chainCount
            /\ b'.lastCom = b.lastCom
      ]_vars


\* the descriptors buildCommandChains opened for the redirections of the line
OpenedByBuilder ==
    { hist.opens[i].fd : i \in 1..Len(hist.opens) } \ {OPEN_FAILED}

\* C15: after all chains of a line have been executed, the interpreter process holds
\* no open descriptor that buildCommandChains opened for a redirection on that line.
C15_NoDescriptorLeft ==
    pc = "done" => openFds \cap OpenedByBuilder = {}


\* C16: after buildCommandChains returns, every command node that was built with
\* piped set has a non-null next.
C16_PipedHasNext ==
    Built =>
      \A n \in 0..(Len(commands) - 1) :
          Node(commands, n).piped # 0 => Node(commands, n).next # NULL


\* the processes forked on this line that have not terminated
Alive == { p \in Pids \ {SHELL} : ~Terminated(p) }

\* C17: for any two launches X before Y made by the chain executor on one line, every
\* process spawned for X has terminated before any process for Y is spawned, also
\* when X's node carries the background flag: a process that has not terminated
\* belongs to the launch the executor is waiting in; and the launches are made in
\* input order.
C17_SequentialLaunches ==
    /\ \A p \in Alive : pc = "launch" /\ procs[p].launch = procs[SHELL].launch
    /\ \A i, j \in 1..Len(hist.starts) : i < j => hist.starts[i] < hist.starts[j]

\* C17 witness: the line is done after two launches that each returned, the first
\* one on a node that carries the background flag
C17_Witness ==
    /\ pc = "done"
    /\ Len(hist.starts) >= 2
    /\ Len(hist.evals) >= 2
    /\ Node(commands, hist.starts[1]).background # 0


\* the pipes some process holds an end of
PipeIds ==
    { f[2] : f \in { g \in UNION { { procs[q].fds[d] : d \in DOMAIN procs[q].fds } :
                                     q \in Pids } : g[1] = "pipe" } }

\* the processes of the stage to the left of a pipe: the child forked as pidLeft by
\* the process that created the pipe, and the program that child forked
LeftStage(id) == { LeftPid(id[2]), SinglePid(LeftPid(id[2])) }

\* the interpreter is inside executePipedCommands for a pipeline of 2 or 3 stages
InPipeline ==
    /\ pc = "launch"
    /\ Len(Stages(commands, procs[SHELL].node)) \in {2, 3}

\* C18 as stated, its part on the write ends: in every reachable state the write end
\* of each pipe is open only in the processes of the stage to its left.
C18_Original ==
    \A id \in PipeIds : Writers(id) \subseteq LeftStage(id)

\* a write end held outside the stage to the left of the pipe: by the process that
\* created the pipe, until its close(commandPipe[1]); by the child forked as
\* pidRight, until its close(commandPipe[1])
HeldInPassing(id, q) ==
    \/ q = id[2] /\ procs[q].pc \in {"forkRight", "forkLeft", "closeRead", "closeWrite"}
    \/ q = RightPid(id[2]) /\ procs[q].pc = "rightClose"

WriteEndsConfined ==
    \A id \in PipeIds : \A q \in Writers(id) : q \in LeftStage(id) \/ HeldInPassing(id, q)

\* C18 amended: under fair scheduling executePipedCommands eventually returns for a
\* pipeline of 2 or 3 stages; in every reachable state the write end of each pipe is
\* open only in the processes of the stage to its left, in the process that created
\* the pipe until it has closed it, and in the right child until it has closed it.
C18_PipelineProgress ==
    /\ []WriteEndsConfined
    /\ InPipeline ~> ~InPipeline

\* C18 witness: executePipedCommands is about to return to the chain executor for a
\* pipeline of 3 stages whose second and third programs ended after reading
\* end-of-file
C18_Witness ==
    /\ pc = "launch"
    /\ procs[SHELL].pc = "return"
    /\ Len(Stages(commands, procs[SHELL].node)) = 3
    /\ LET middle == SinglePid(LeftPid(RightPid(SHELL)))
           last == SinglePid(RightPid(RightPid(SHELL)))
       IN  /\ {middle, last} \subseteq Pids
           /\ procs[middle].untilEof /\ procs[middle].pc = "reaped"
           /\ procs[last].untilEof /\ procs[last].pc = "reaped"


\* C19: after a Lexer call stops with background the node just built has background
\* set, and the next Lexer call creates no new command node whatever it returns: its
\* arguments do not become a command and do not extend the node's argument vector,
\* and its stop reason is applied to that same node.
C19_Continuation ==
    [][ /\ (/\ pc = "build"
            /\ pc' # "crash"
            /\ b'.stopReason = SR_BACKGROUND
            /\ ReachedSwitch(hist'.ev)) =>
               /\ Node(commands', b'.com).background = 1
               /\ b'.continueLast = 1
        /\ (/\ pc = "build"
            /\ pc' # "crash"
            /\ b.continueLast = 1) =>
               /\ Len(commands') = Len(commands)
               /\ b'.com = b.com
               /\ Argv(commands', argList', argBuffer', b.com)
                     = Argv(commands, argList, argBuffer, b.com)
               /\ b'.stopReason = SR_PIPE => Node(commands', b.com).piped = 1
               /\ b'.stopReason = SR_SEQ_AND => Node(commands', b.com).stopOnFailure = 1
               /\ b'.stopReason = SR_SEQ_OR => Node(commands', b.com).stopOnSuccess = 1
               /\ b'.stopReason \in {SR_DONE, SR_SEQ_CHAIN} =>
                     b'.chainCount = b.chainCount + 1 /\ b'.lastCom = NULL
      ]_vars


\* the access mode each redirection operator asks for
FlagsFor(reason) ==
    IF reason = SR_REDIRECT_IN THEN "O_RDONLY"
    ELSE IF reason = SR_REDIRECT_OUT THEN "O_WRONLY|O_CREAT|O_TRUNC"
    ELSE "O_WRONLY|O_CREAT|O_APPEND"

\* the redirection t, a Lexer call in redirection-target mode that returned its one
\* file name, was followed by open of that name with the mode of its operator
OpenedAsNamed(t) ==
    \E k \in 1..Len(hist.opens) :
        /\ hist.opens[k].pos = t.pos
        /\ hist.opens[k].name = t.name
        /\ t.by \in {SR_REDIRECT_IN, SR_REDIRECT_OUT, SR_REDIRECT_OUT_APPEND} =>
              hist.opens[k].oflags = FlagsFor(t.by)

\* C20: every redirection file named on a line is opened (for `>`, created and
\* truncated) by buildCommandChains before the first process of the line is spawned:
\* an open takes place only while no process has been spawned, and once a process has
\* been spawned every named file has been opened.
C20_OpenedBeforeSpawn ==
    /\ [][hist'.opens # hist.opens => hist'.spawned = <<>>]_vars
    /\ [](hist.spawned # <<>> => \A t \in { u \in hist.targets : u.named } : OpenedAsNamed(t))

=============================================================================
